---- MODULE Spec2Model ----
(***************************************************************************)
(* A model of the d-ary heap of datastructures/heap/dway_heap.py           *)
(* (class DWayHeap).  The backing list _pairs is a sequence of             *)
(* <<priority, element>> tuples; the code's 0-based indices are kept and   *)
(* translated to TLA+'s 1-based sequences by At/Put.                       *)
(* The second half models datastructures/huffman/huffman.py, which builds  *)
(* a Huffman tree with such a heap: create_encoding, step by step.         *)
(***************************************************************************)
EXTENDS Bags, FiniteSets, Integers, Sequences, TLC

\* ---------------------------------------------------------------- bounds
\* Longest elements/priorities list given to the constructor, and largest heap.
MaxLen == 4
\* Largest branching factor tried.
MaxD == 3
\* Largest number of successful insert calls counted on one heap.
MaxOps == 5
\* Longest list in a constructor call that is going to fail.
MaxErrLen == 2

\* Elements and priorities the callers draw from.
Elems == {"a", "b"}
Prios == {0, 1, 2}
\* Branching factors the constructor rejects (tests/dway_heap_tests.py line 14).
BadBFs == {-1, 0, 1}

VARIABLES
    created,    \* TRUE once a constructor call has returned a heap
    D,          \* self.D
    pairs,      \* self._pairs
    op,         \* the last call: "none", "init", "insert", "top", "peek", "is_empty", "len"
    args,       \* the arguments of the last call
    ret,        \* what the last call returned ("None" when nothing)
    err,        \* the exception the last call raised, or "none"
    loaded,     \* number of pairs the constructor put in the heap
    inserts,    \* successful insert calls since construction
    tops,       \* successful top calls since construction
    pc,         \* where create_encoding stands; "idle" when the heap is used on its own
    ft,         \* the frequency table: <<character, count>> in first-seen order
    nodes,      \* number of HuffmanNode objects constructed so far
    last,       \* the right and left node of the latest merge
    tree,       \* the root returned by _heap_to_tree
    lists,      \* the list objects in memory, by identity, when several heaps are at work
    heaps       \* the heap objects then at work: the identity of each one's _pairs, and D

\* What huffman.py adds to the state of a heap.
hvars == <<pc, ft, nodes, last, tree>>

\* What several heaps side by side add to the state.
avars == <<lists, heaps>>

vars == <<created, D, pairs, op, args, ret, err, loaded, inserts, tops, pc, ft, nodes, last, tree,
          lists, heaps>>

\* ---------------------------------------------------------------- helpers
SeqsUpTo(S, n) == UNION {[1..k -> S] : k \in 0..n}

Min2(a, b) == IF a <= b THEN a ELSE b

\* The multiset of the members of a sequence.
BagOfSeq(s) ==
    LET R == {s[i] : i \in DOMAIN s}
    IN [x \in R |-> Cardinality({i \in DOMAIN s : s[i] = x})]

\* self._pairs[i] and self._pairs[i] = v, with the code's 0-based index.
At(ps, i) == ps[i + 1]
Put(ps, i, v) == [ps EXCEPT ![i + 1] = v]

Priority(pair) == pair[1]
Element(pair) == pair[2]

\* list(zip(priorities, elements)): zip stops at the shorter list.
Zip(priorities, elements) ==
    [i \in 1..Min2(Len(priorities), Len(elements)) |-> <<priorities[i], elements[i]>>]

\* ---------------------------------------------------------------- index arithmetic
FirstChildIndex(index, d) == index * d + 1

ParentIndex(index, d) == (index - 1) \div d

\* A first leaf one index too low.
FirstLeafIndex_Early(ps, d) == (Len(ps) - 2) \div d

FirstLeafIndex(ps, d) == (Len(ps) - 2) \div d + 1

\* ---------------------------------------------------------------- _highest_priority_child_index
\* Scan that keeps the last of several equal children (>= instead of >).
RECURSIVE ChildScan_Last(_, _, _, _)
ChildScan_Last(ps, i, last_index, best) ==
    IF i >= last_index THEN best[3]
    ELSE IF (~best[1]) \/ Priority(At(ps, i)) >= best[2]
         THEN ChildScan_Last(ps, i + 1, last_index, <<TRUE, Priority(At(ps, i)), i>>)
         ELSE ChildScan_Last(ps, i + 1, last_index, best)

\* The for loop of lines 162-165: best is <<found, priority, index>>, found = FALSE
\* standing for highest_priority = -inf, which every priority exceeds.
RECURSIVE ChildScan(_, _, _, _)
ChildScan(ps, i, last_index, best) ==
    IF i >= last_index THEN best[3]
    ELSE IF (~best[1]) \/ Priority(At(ps, i)) > best[2]
         THEN ChildScan(ps, i + 1, last_index, <<TRUE, Priority(At(ps, i)), i>>)
         ELSE ChildScan(ps, i + 1, last_index, best)

\* Scan that only looks at the first child.
HighestPriorityChildIndex_First(ps, d, index) ==
    IF FirstChildIndex(index, d) >= Len(ps) THEN -1 ELSE FirstChildIndex(index, d)

\* -1 stands for None (the node has no child).
HighestPriorityChildIndex(ps, d, index) ==
    LET first_index == FirstChildIndex(index, d)
        size == Len(ps)
        last_index == Min2(first_index + d, size)
    IN IF first_index >= size THEN -1
       ELSE ChildScan(ps, first_index, last_index, <<FALSE, 0, first_index>>)

\* ---------------------------------------------------------------- _push_down
RECURSIVE PushDownLoop(_, _, _, _, _)
PushDownLoop(ps, d, current_index, input_pair, first_leaf) ==
    IF current_index < first_leaf
    THEN LET child_index == HighestPriorityChildIndex(ps, d, current_index)
         IN IF Priority(At(ps, child_index)) > Priority(input_pair)
            THEN PushDownLoop(Put(ps, current_index, At(ps, child_index)), d,
                              child_index, input_pair, first_leaf)
            ELSE Put(ps, current_index, input_pair)
    ELSE Put(ps, current_index, input_pair)

\* A push-down that leaves the array as it is.
PushDown_Skip(ps, d, index) == ps

PushDown(ps, d, index) ==
    PushDownLoop(ps, d, index, At(ps, index), FirstLeafIndex(ps, d))

\* ---------------------------------------------------------------- _bubble_up
\* A bubble-up that also swaps with a parent of equal priority.
RECURSIVE BubbleUpLoop_NonStrict(_, _, _, _)
BubbleUpLoop_NonStrict(ps, d, index, input_pair) ==
    IF index > 0
    THEN LET parent_index == ParentIndex(index, d)
             parent == At(ps, parent_index)
         IN IF Priority(input_pair) >= Priority(parent)
            THEN BubbleUpLoop_NonStrict(Put(ps, index, parent), d, parent_index, input_pair)
            ELSE Put(ps, index, input_pair)
    ELSE Put(ps, index, input_pair)

RECURSIVE BubbleUpLoop(_, _, _, _)
BubbleUpLoop(ps, d, index, input_pair) ==
    IF index > 0
    THEN LET parent_index == ParentIndex(index, d)
             parent == At(ps, parent_index)
         IN IF Priority(input_pair) > Priority(parent)
            THEN BubbleUpLoop(Put(ps, index, parent), d, parent_index, input_pair)
            ELSE Put(ps, index, input_pair)
    ELSE Put(ps, index, input_pair)

\* A bubble-up that leaves the new pair where it was appended.
BubbleUp_Skip(ps, d, index) == ps

BubbleUp(ps, d, index) == BubbleUpLoop(ps, d, index, At(ps, index))

\* ---------------------------------------------------------------- _heapify
\* for index in range(last_inner_node_index, -1, -1): self._push_down(index)
RECURSIVE HeapifyLoop(_, _, _)
HeapifyLoop(ps, d, index) ==
    IF index < 0 THEN ps ELSE HeapifyLoop(PushDown(ps, d, index), d, index - 1)

\* A heapify that starts one node too late (skips the last inner node).
Heapify_OffByOne(elements, priorities, d) ==
    LET ps == Zip(priorities, elements)
    IN HeapifyLoop(ps, d, FirstLeafIndex(ps, d) - 2)

Heapify(elements, priorities, d) ==
    LET ps == Zip(priorities, elements)
    IN HeapifyLoop(ps, d, FirstLeafIndex(ps, d) - 1)

\* ---------------------------------------------------------------- __init__
\* The result of a constructor call: the exception raised or the new object's fields.
InitOf_NoLengthCheck(elements, priorities, branching_factor) ==
    IF branching_factor < 2
    THEN [err |-> "ValueError_branching", created |-> FALSE, pairs |-> <<>>, D |-> 0]
    ELSE [err |-> "none", created |-> TRUE,
          pairs |-> IF Len(elements) > 0
                    THEN Heapify(elements, priorities, branching_factor) ELSE <<>>,
          D |-> branching_factor]

InitOf_AcceptsOne(elements, priorities, branching_factor) ==
    IF Len(elements) # Len(priorities)
    THEN [err |-> "ValueError_length", created |-> FALSE, pairs |-> <<>>, D |-> 0]
    ELSE IF branching_factor < 1
    THEN [err |-> "ValueError_branching", created |-> FALSE, pairs |-> <<>>, D |-> 0]
    ELSE [err |-> "none", created |-> TRUE,
          pairs |-> IF Len(elements) > 0
                    THEN Heapify(elements, priorities, branching_factor) ELSE <<>>,
          D |-> branching_factor]

InitOf(elements, priorities, branching_factor) ==
    IF Len(elements) # Len(priorities)
    THEN [err |-> "ValueError_length", created |-> FALSE, pairs |-> <<>>, D |-> 0]
    ELSE IF branching_factor < 2
    THEN [err |-> "ValueError_branching", created |-> FALSE, pairs |-> <<>>, D |-> 0]
    ELSE [err |-> "none", created |-> TRUE,
          pairs |-> IF Len(elements) > 0
                    THEN Heapify(elements, priorities, branching_factor) ELSE <<>>,
          D |-> branching_factor]

\* ---------------------------------------------------------------- __len__, is_empty
LenOf(ps) == Len(ps)

IsEmptyOf(ps) == LenOf(ps) = 0

\* ---------------------------------------------------------------- the assertions
\* assert (0 <= index < len(self._pairs)), at the head of _push_down and _bubble_up
IndexAssert(ps, index) == 0 <= index /\ index < Len(ps)

\* Whether assert (child_index is not None) holds in every iteration of the loop of a
\* _push_down call.
RECURSIVE PushDownLoopAsserts(_, _, _, _, _)
PushDownLoopAsserts(ps, d, current_index, input_pair, first_leaf) ==
    IF current_index < first_leaf
    THEN LET child_index == HighestPriorityChildIndex(ps, d, current_index)
         IN IF child_index = -1 THEN FALSE
            ELSE IF Priority(At(ps, child_index)) > Priority(input_pair)
            THEN PushDownLoopAsserts(Put(ps, current_index, At(ps, child_index)), d,
                                     child_index, input_pair, first_leaf)
            ELSE TRUE
    ELSE TRUE

\* Whether both assertions of the call _push_down(index) hold.
PushDownAsserts(ps, d, index) ==
    IF IndexAssert(ps, index)
    THEN PushDownLoopAsserts(ps, d, index, At(ps, index), FirstLeafIndex(ps, d))
    ELSE FALSE

\* Whether the assertion of the call _bubble_up(index) holds.
BubbleUpAsserts(ps, d, index) == IndexAssert(ps, index)

\* Whether the assertions hold in every _push_down call of _heapify's loop.
RECURSIVE HeapifyLoopAsserts(_, _, _)
HeapifyLoopAsserts(ps, d, index) ==
    IF index < 0 THEN TRUE
    ELSE IF PushDownAsserts(ps, d, index)
    THEN HeapifyLoopAsserts(PushDown(ps, d, index), d, index - 1)
    ELSE FALSE

\* ... in the constructor call: _heapify runs when elements is not empty.
InitAsserts(elements, priorities, d) ==
    IF Len(elements) > 0
    THEN LET ps == Zip(priorities, elements)
         IN HeapifyLoopAsserts(ps, d, FirstLeafIndex(ps, d) - 1)
    ELSE TRUE

\* ... in a call of top: _push_down(0) runs when more than one pair was held.
TopAsserts(ps, d) ==
    IF IsEmptyOf(ps) \/ LenOf(ps) = 1 THEN TRUE
    ELSE PushDownAsserts(Put(SubSeq(ps, 1, Len(ps) - 1), 0, ps[Len(ps)]), d, 0)

\* ... in a call of insert: _bubble_up(len(self._pairs) - 1) after the append.
InsertAsserts(ps, d, element, priority) ==
    LET appended == Append(ps, <<priority, element>>)
    IN BubbleUpAsserts(appended, d, Len(appended) - 1)

\* ---------------------------------------------------------------- _validate
\* for child_index in range(first_child, last_child_guard):
\*     if current_priority < self._pairs[child_index][0]: return False
RECURSIVE ValidateChildren(_, _, _, _)
ValidateChildren(ps, current_priority, child_index, last_child_guard) ==
    IF child_index >= last_child_guard THEN TRUE
    ELSE IF current_priority < Priority(At(ps, child_index)) THEN FALSE
    ELSE ValidateChildren(ps, current_priority, child_index + 1, last_child_guard)

\* while current_index < first_leaf: ...; current_index += 1
RECURSIVE ValidateLoop(_, _, _, _)
ValidateLoop(ps, d, current_index, first_leaf) ==
    IF current_index < first_leaf
    THEN LET current_priority == Priority(At(ps, current_index))
             first_child == FirstChildIndex(current_index, d)
             last_child_guard == Min2(first_child + d, LenOf(ps))
         IN IF ValidateChildren(ps, current_priority, first_child, last_child_guard)
            THEN ValidateLoop(ps, d, current_index + 1, first_leaf)
            ELSE FALSE
    ELSE TRUE

\* A validation that stops one node before the first leaf.
ValidateOf_StopsEarly(ps, d) == ValidateLoop(ps, d, 0, FirstLeafIndex(ps, d) - 1)

ValidateOf(ps, d) == ValidateLoop(ps, d, 0, FirstLeafIndex(ps, d))

\* ---------------------------------------------------------------- top
\* A top that forgets to shrink the list when it holds one pair.
TopOf_KeepsLast(ps, d) ==
    IF IsEmptyOf(ps) THEN [err |-> "RuntimeError_top", pairs |-> ps, element |-> "None"]
    ELSE IF LenOf(ps) = 1
    THEN [err |-> "none", pairs |-> ps, element |-> Element(ps[Len(ps)])]
    ELSE [err |-> "none",
          pairs |-> PushDown(Put(SubSeq(ps, 1, Len(ps) - 1), 0, ps[Len(ps)]), d, 0),
          element |-> Element(At(ps, 0))]

\* A top that returns the pair it moved to the root instead of the old root.
TopOf_ReturnsLast(ps, d) ==
    IF IsEmptyOf(ps) THEN [err |-> "RuntimeError_top", pairs |-> ps, element |-> "None"]
    ELSE IF LenOf(ps) = 1
    THEN [err |-> "none", pairs |-> <<>>, element |-> Element(ps[Len(ps)])]
    ELSE [err |-> "none",
          pairs |-> PushDown(Put(SubSeq(ps, 1, Len(ps) - 1), 0, ps[Len(ps)]), d, 0),
          element |-> Element(ps[Len(ps)])]

\* A top that answers an empty heap with None and no exception.
TopOf_NoRaise(ps, d) ==
    IF IsEmptyOf(ps) THEN [err |-> "none", pairs |-> ps, element |-> "None"]
    ELSE IF LenOf(ps) = 1
    THEN [err |-> "none", pairs |-> <<>>, element |-> Element(ps[Len(ps)])]
    ELSE [err |-> "none",
          pairs |-> PushDown(Put(SubSeq(ps, 1, Len(ps) - 1), 0, ps[Len(ps)]), d, 0),
          element |-> Element(At(ps, 0))]

TopOf(ps, d) ==
    IF IsEmptyOf(ps) THEN [err |-> "RuntimeError_top", pairs |-> ps, element |-> "None"]
    ELSE IF LenOf(ps) = 1
    THEN [err |-> "none", pairs |-> <<>>, element |-> Element(ps[Len(ps)])]
    ELSE [err |-> "none",
          pairs |-> PushDown(Put(SubSeq(ps, 1, Len(ps) - 1), 0, ps[Len(ps)]), d, 0),
          element |-> Element(At(ps, 0))]

\* ---------------------------------------------------------------- peek
\* A peek that returns the last pair's element.
PeekOf_Last(ps) ==
    IF IsEmptyOf(ps) THEN [err |-> "RuntimeError_peek", element |-> "None"]
    ELSE [err |-> "none", element |-> Element(ps[Len(ps)])]

PeekOf(ps) ==
    IF IsEmptyOf(ps) THEN [err |-> "RuntimeError_peek", element |-> "None"]
    ELSE [err |-> "none", element |-> Element(At(ps, 0))]

\* ---------------------------------------------------------------- insert
InsertOf(ps, d, element, priority) ==
    BubbleUp(Append(ps, <<priority, element>>), d, Len(ps))

\* ---------------------------------------------------------------- the heap as a state machine
NoArgs == [none |-> TRUE]

\* No heap object exists yet; the constructor call makes one.
Init ==
    /\ created = FALSE
    /\ D = 0
    /\ pairs = <<>>
    /\ op = "none"
    /\ args = NoArgs
    /\ ret = "None"
    /\ err = "none"
    /\ loaded = 0
    /\ inserts = 0
    /\ tops = 0
    /\ pc = "idle"
    /\ ft = <<>>
    /\ nodes = 0
    /\ last = NoArgs
    /\ tree = NoArgs
    /\ lists = <<>>
    /\ heaps = <<>>

\* The constructor calls tried: every pair of lists of equal length with an accepted
\* branching factor, and short lists of any two lengths with any branching factor.
CtorInputs ==
    {<<es, prs, bf>> : es \in SeqsUpTo(Elems, MaxLen), prs \in SeqsUpTo(Prios, MaxLen),
                       bf \in 2..MaxD}
    \cup {<<es, prs, bf>> : es \in SeqsUpTo(Elems, MaxErrLen), prs \in SeqsUpTo(Prios, MaxErrLen),
                            bf \in BadBFs \cup (2..MaxD)}

\* heap = DWayHeap(elements, priorities, branching_factor): the one constructor call
\* of a run.  A call that raises leaves no object behind, so nothing follows it.
Construct ==
    /\ op = "none"
    /\ \E in \in CtorInputs :
          LET r == InitOf(in[1], in[2], in[3])
          IN /\ op' = "init"
             /\ args' = [elements |-> in[1], priorities |-> in[2], branching_factor |-> in[3]]
             /\ err' = r.err
             /\ ret' = "None"
             /\ created' = r.created
             /\ pairs' = r.pairs
             /\ D' = r.D
             /\ loaded' = Len(r.pairs)
             /\ inserts' = 0
             /\ tops' = 0
    /\ UNCHANGED hvars
    /\ UNCHANGED avars

\* heap.insert(element, priority)
Insert ==
    /\ created
    /\ Len(pairs) < MaxLen
    /\ inserts < MaxOps
    /\ \E element \in Elems, priority \in Prios :
          /\ pairs' = InsertOf(pairs, D, element, priority)
          /\ args' = [element |-> element, priority |-> priority]
    /\ op' = "insert"
    /\ ret' = "None"
    /\ err' = "none"
    /\ inserts' = inserts + 1
    /\ UNCHANGED <<created, D, loaded, tops>>
    /\ UNCHANGED hvars
    /\ UNCHANGED avars

\* heap.top()
Top ==
    /\ created
    /\ LET r == TopOf(pairs, D)
       IN /\ pairs' = r.pairs
          /\ ret' = r.element
          /\ err' = r.err
          /\ tops' = IF r.err = "none" THEN tops + 1 ELSE tops
    /\ op' = "top"
    /\ args' = NoArgs
    /\ UNCHANGED <<created, D, loaded, inserts>>
    /\ UNCHANGED hvars
    /\ UNCHANGED avars

\* heap.peek()
Peek ==
    /\ created
    /\ LET r == PeekOf(pairs)
       IN /\ ret' = r.element
          /\ err' = r.err
    /\ op' = "peek"
    /\ args' = NoArgs
    /\ UNCHANGED <<created, D, pairs, loaded, inserts, tops>>
    /\ UNCHANGED hvars
    /\ UNCHANGED avars

\* heap.is_empty()
IsEmpty ==
    /\ created
    /\ ret' = IsEmptyOf(pairs)
    /\ op' = "is_empty"
    /\ args' = NoArgs
    /\ err' = "none"
    /\ UNCHANGED <<created, D, pairs, loaded, inserts, tops>>
    /\ UNCHANGED hvars
    /\ UNCHANGED avars

\* len(heap)
LenCall ==
    /\ created
    /\ ret' = LenOf(pairs)
    /\ op' = "len"
    /\ args' = NoArgs
    /\ err' = "none"
    /\ UNCHANGED <<created, D, pairs, loaded, inserts, tops>>
    /\ UNCHANGED hvars
    /\ UNCHANGED avars

Next == Construct \/ Insert \/ Top \/ Peek \/ IsEmpty \/ LenCall

Spec == Init /\ [][Next]_vars

\* ---------------------------------------------------------------- _validate on any backing list
\* _validate reads _pairs and D only and is meant for tests: it is tried on every
\* backing list, in heap order or not, of every size from 0.
AnyPairs == SeqsUpTo(Prios \X Elems, MaxLen)

VInit ==
    /\ created = TRUE
    /\ D \in 2..MaxD
    /\ pairs \in AnyPairs
    /\ op = "none"
    /\ args = NoArgs
    /\ ret = "None"
    /\ err = "none"
    /\ loaded = Len(pairs)
    /\ inserts = 0
    /\ tops = 0
    /\ pc = "idle"
    /\ ft = <<>>
    /\ nodes = 0
    /\ last = NoArgs
    /\ tree = NoArgs
    /\ lists = <<>>
    /\ heaps = <<>>

\* heap._validate()
ValidateCall ==
    /\ op = "none"
    /\ op' = "_validate"
    /\ args' = NoArgs
    /\ ret' = ValidateOf(pairs, D)
    /\ err' = "none"
    /\ UNCHANGED <<created, D, pairs, loaded, inserts, tops>>
    /\ UNCHANGED hvars
    /\ UNCHANGED avars

VNext == ValidateCall

SpecValidate == VInit /\ [][VNext]_vars

\* ---------------------------------------------------------------- several heaps and the caller's lists
\* Longest list the caller passes to a constructor here.
MaxAliasLen == 1
\* Largest number of insert calls, over all heaps.
MaxAliasOps == 2

HeapNames == {"first", "second"}
\* The branching factors of the heaps made here, and the element inserted into them.
AliasBFs == {2, 3}
AliasElems == {"b"}
NoHeap == [none |-> TRUE]

\* The list objects that exist before any heap: the two [] of the def line, made once
\* and bound to the parameter in every call that omits the argument, and the two lists
\* the caller owns.  A list object is known by its position in lists.
DefaultElements == 1
DefaultPriorities == 2
CallerElements == 3
CallerPriorities == 4

ListsBefore == {DefaultElements, DefaultPriorities, CallerElements, CallerPriorities}

\* A constructor that keeps the list it was given as its backing list when that list
\* is empty.
AInitOf_KeepsEmptyList(ls, elements, priorities, branching_factor) ==
    IF Len(ls[elements]) # Len(ls[priorities])
    THEN [err |-> "ValueError_length", lists |-> ls, heap |-> NoHeap]
    ELSE IF branching_factor < 2
    THEN [err |-> "ValueError_branching", lists |-> ls, heap |-> NoHeap]
    ELSE IF Len(ls[elements]) > 0
         THEN [err |-> "none",
               lists |-> Append(Append(ls, <<>>),
                                Heapify(ls[elements], ls[priorities], branching_factor)),
               heap |-> [pairs |-> Len(ls) + 2, D |-> branching_factor]]
         ELSE [err |-> "none", lists |-> ls,
               heap |-> [pairs |-> elements, D |-> branching_factor]]

\* __init__ with the lists as objects: self._pairs = [] makes a new list (line 31);
\* _heapify binds self._pairs to another new list, list(zip(priorities, elements))
\* (line 180), and pushes down in that list.  The lists given are only read.
AInitOf(ls, elements, priorities, branching_factor) ==
    IF Len(ls[elements]) # Len(ls[priorities])
    THEN [err |-> "ValueError_length", lists |-> ls, heap |-> NoHeap]
    ELSE IF branching_factor < 2
    THEN [err |-> "ValueError_branching", lists |-> ls, heap |-> NoHeap]
    ELSE IF Len(ls[elements]) > 0
         THEN [err |-> "none",
               lists |-> Append(Append(ls, <<>>),
                                Heapify(ls[elements], ls[priorities], branching_factor)),
               heap |-> [pairs |-> Len(ls) + 2, D |-> branching_factor]]
         ELSE [err |-> "none", lists |-> Append(ls, <<>>),
               heap |-> [pairs |-> Len(ls) + 1, D |-> branching_factor]]

\* insert and top work in place, on the list self._pairs refers to.
AInsertOf(ls, heap, element, priority) ==
    [ls EXCEPT ![heap.pairs] = InsertOf(ls[heap.pairs], heap.D, element, priority)]

ATopOf(ls, heap) ==
    LET r == TopOf(ls[heap.pairs], heap.D)
    IN [err |-> r.err, element |-> r.element, lists |-> [ls EXCEPT ![heap.pairs] = r.pairs]]

\* The caller owns two lists of equal length; no heap exists yet.
AInit ==
    /\ \E es \in SeqsUpTo(Elems, MaxAliasLen) :
          \E prs \in {q \in SeqsUpTo(Prios, MaxAliasLen) : Len(q) = Len(es)} :
              lists = <<<<>>, <<>>, es, prs>>
    /\ heaps = [h \in HeapNames |-> NoHeap]
    /\ created = FALSE
    /\ D = 0
    /\ pairs = <<>>
    /\ op = "none"
    /\ args = NoArgs
    /\ ret = "None"
    /\ err = "none"
    /\ loaded = 0
    /\ inserts = 0
    /\ tops = 0
    /\ pc = "idle"
    /\ ft = <<>>
    /\ nodes = 0
    /\ last = NoArgs
    /\ tree = NoArgs

\* h = DWayHeap(...), each of elements and priorities either omitted or the caller's.
AConstruct ==
    /\ \E h \in HeapNames :
          /\ heaps[h] = NoHeap
          /\ h = "second" => heaps["first"] # NoHeap
          /\ \E elements \in {DefaultElements, CallerElements},
                priorities \in {DefaultPriorities, CallerPriorities},
                branching_factor \in AliasBFs :
                LET r == AInitOf(lists, elements, priorities, branching_factor)
                IN /\ lists' = r.lists
                   /\ heaps' = [heaps EXCEPT ![h] = r.heap]
                   /\ err' = r.err
                   /\ args' = [heap |-> h, elements |-> elements, priorities |-> priorities,
                               branching_factor |-> branching_factor]
    /\ op' = "init"
    /\ ret' = "None"
    /\ UNCHANGED <<created, D, pairs, loaded, inserts, tops>>
    /\ UNCHANGED hvars

\* heaps[h].insert(element, priority)
AInsert ==
    /\ inserts < MaxAliasOps
    /\ \E h \in HeapNames, element \in AliasElems, priority \in Prios :
          /\ heaps[h] # NoHeap
          /\ lists' = AInsertOf(lists, heaps[h], element, priority)
          /\ args' = [heap |-> h, element |-> element, priority |-> priority]
    /\ op' = "insert"
    /\ ret' = "None"
    /\ err' = "none"
    /\ inserts' = inserts + 1
    /\ UNCHANGED <<created, D, pairs, loaded, tops, heaps>>
    /\ UNCHANGED hvars

\* heaps[h].top()
ATop ==
    /\ \E h \in HeapNames :
          /\ heaps[h] # NoHeap
          /\ LET r == ATopOf(lists, heaps[h])
             IN /\ lists' = r.lists
                /\ ret' = r.element
                /\ err' = r.err
                /\ tops' = IF r.err = "none" THEN tops + 1 ELSE tops
          /\ args' = [heap |-> h]
    /\ op' = "top"
    /\ UNCHANGED <<created, D, pairs, loaded, inserts, heaps>>
    /\ UNCHANGED hvars

ANext == AConstruct \/ AInsert \/ ATop

SpecAlias == AInit /\ [][ANext]_vars

\* ---------------------------------------------------------------- what the claims speak of
\* Max-heap order: every node's priority is >= the priority of each of its children,
\* the children of index i being i*d+1 .. min(i*d+d, n-1).
HeapOrdered(ps, d) ==
    \A i \in 0..(Len(ps) - 1) :
        \A c \in (i * d + 1)..Min2(i * d + d, Len(ps) - 1) :
            Priority(At(ps, i)) >= Priority(At(ps, c))

PrioritiesOf(ps) == [i \in DOMAIN ps |-> Priority(ps[i])]

NonIncreasing(s) == \A i \in DOMAIN s : \A j \in DOMAIN s : i < j => s[i] >= s[j]

PairwiseDistinct(s) == \A i \in DOMAIN s : \A j \in DOMAIN s : i # j => s[i] # s[j]

\* The pair that is in before and no longer (or less often) in after.
RemovedPair(before, after) ==
    CHOOSE x \in {before[i] : i \in DOMAIN before} :
        Cardinality({i \in DOMAIN before : before[i] = x})
            > Cardinality({i \in DOMAIN after : after[i] = x})

\* n calls of top() in a row: the pairs they removed, in order, and what is left.
RECURSIVE Drain(_, _, _)
Drain(ps, d, n) ==
    IF n = 0 \/ ps = <<>> THEN [out |-> <<>>, rest |-> ps]
    ELSE LET r == TopOf(ps, d)
             tail == Drain(r.pairs, d, n - 1)
         IN [out |-> <<RemovedPair(ps, r.pairs)>> \o tail.out, rest |-> tail.rest]

\* The elements returned by n calls of top() in a row.
RECURSIVE DrainElements(_, _, _)
DrainElements(ps, d, n) ==
    IF n = 0 \/ ps = <<>> THEN <<>>
    ELSE LET r == TopOf(ps, d)
         IN <<r.element>> \o DrainElements(r.pairs, d, n - 1)

\* An empty heap of branching factor d, then insert(elements[i], priorities[i]) in list order.
RECURSIVE InsertAll(_, _, _, _)
InsertAll(ps, d, elements, priorities) ==
    IF elements = <<>> THEN ps
    ELSE InsertAll(InsertOf(ps, d, Head(elements), Head(priorities)), d,
                   Tail(elements), Tail(priorities))

\* ---------------------------------------------------------------- claims

\* C1: after every operation on a heap (constructor, insert, top, and the read-only
\* calls), every stored pair has a priority >= the priority of each of its children.
C1_HeapOrderAfterEachOperation == created => HeapOrdered(pairs, D)

\* A top() has just pushed a pair down in a heap that inserts also went into.
C1_Witness ==
    /\ created /\ op = "top" /\ err = "none"
    /\ inserts >= 2 /\ Len(pairs) >= 3
    /\ Priority(pairs[1]) > Priority(pairs[Len(pairs)])

\* C2: a successful top() returns the element of a stored pair of maximum priority and
\* removes exactly that pair: the multiset of pairs before the call is the multiset
\* after it plus the returned pair.
C2_TopRemovesExactlyTheMaximum ==
    [][(op' = "top" /\ err' = "none") =>
          /\ pairs # <<>>
          /\ \E i \in DOMAIN pairs :
                /\ Element(pairs[i]) = ret'
                /\ \A j \in DOMAIN pairs : Priority(pairs[i]) >= Priority(pairs[j])
                /\ BagOfSeq(pairs') (+) SetToBag({pairs[i]}) = BagOfSeq(pairs)]_vars

\* A top() took the maximum out of a heap holding several priorities.
C2_Witness ==
    /\ op = "top" /\ err = "none" /\ Len(pairs) >= 3
    /\ \E i \in DOMAIN pairs : Priority(pairs[i]) # Priority(pairs[1])

\* C3: from every heap the constructor and inserts can load, len(heap) calls of top() in
\* a row empty the heap and return pairs whose priorities are non-increasing and are a
\* permutation of the stored priorities.
C3_DrainIsSortedPermutation ==
    created =>
        LET r == Drain(pairs, D, Len(pairs))
        IN /\ r.rest = <<>>
           /\ Len(r.out) = Len(pairs)
           /\ NonIncreasing(PrioritiesOf(r.out))
           /\ BagOfSeq(PrioritiesOf(r.out)) = BagOfSeq(PrioritiesOf(pairs))

\* A loaded heap whose array is not already in extraction order.
C3_Witness ==
    /\ created /\ op \in {"init", "insert"} /\ Len(pairs) >= 4
    /\ ~NonIncreasing(PrioritiesOf(pairs))
    /\ Cardinality({Priority(pairs[i]) : i \in DOMAIN pairs}) >= 3

\* C4: on a heap that was created empty, len(heap) is the number of successful inserts
\* minus the number of successful tops, len() returns it, and is_empty() returns TRUE
\* exactly when that difference is 0.
C4_SizeIsInsertsMinusTops ==
    (created /\ loaded = 0) =>
        /\ LenOf(pairs) = inserts - tops
        /\ (op = "len" => ret = inserts - tops)
        /\ (op = "is_empty" => ret = (inserts - tops = 0))

\* is_empty() answers TRUE on a heap that inserts filled and tops emptied again.
C4_Witness ==
    /\ created /\ loaded = 0 /\ op = "is_empty" /\ ret = TRUE
    /\ inserts >= 3 /\ tops = inserts

\* C5: given lists of equal length n and a branching factor >= 2, the constructor
\* returns a heap with len n that holds exactly the pairs (priorities[i], elements[i])
\* and is in max-heap order.
C5_ConstructorBuildsHeap ==
    (/\ op = "init"
     /\ Len(args.elements) = Len(args.priorities)
     /\ args.branching_factor >= 2) =>
        /\ err = "none" /\ created
        /\ D = args.branching_factor
        /\ LenOf(pairs) = Len(args.elements)
        /\ BagOfSeq(pairs) = BagOfSeq(Zip(args.priorities, args.elements))
        /\ HeapOrdered(pairs, D)

\* The constructor had to move pairs, with equal priorities among them.
C5_Witness ==
    /\ op = "init" /\ err = "none" /\ Len(pairs) >= 4
    /\ pairs # Zip(args.priorities, args.elements)
    /\ ~PairwiseDistinct(args.priorities)
    /\ Cardinality({args.priorities[i] : i \in DOMAIN args.priorities}) >= 2

\* The heap the same lists give when inserted one by one into an empty heap, next to
\* the heap the constructor built from them.
InsertedTwin == InsertAll(<<>>, D, args.elements, args.priorities)

\* C6 as stated: the heap the constructor built and the heap built by inserting the same
\* pairs in list order return the same sequence of elements when emptied by top().
C6_SameExtractionOrder_AsStated ==
    (op = "init" /\ err = "none") =>
        DrainElements(pairs, D, Len(pairs))
            = DrainElements(InsertedTwin, D, Len(InsertedTwin))

\* C6, amended: both heaps return the same sequence of priorities and the same multiset
\* of pairs; the sequences of elements are the same whenever the priorities are pairwise
\* distinct (elements of equal priority may come out in a different order).
C6_SameExtractionOrder_UpToTies ==
    (op = "init" /\ err = "none") =>
        LET built == Drain(pairs, D, Len(pairs))
            twin == Drain(InsertedTwin, D, Len(InsertedTwin))
        IN /\ built.rest = <<>> /\ twin.rest = <<>>
           /\ PrioritiesOf(built.out) = PrioritiesOf(twin.out)
           /\ BagOfSeq(built.out) = BagOfSeq(twin.out)
           /\ (PairwiseDistinct(args.priorities) =>
                  DrainElements(pairs, D, Len(pairs))
                      = DrainElements(InsertedTwin, D, Len(InsertedTwin)))

\* The two heaps are laid out differently, hold equal priorities, and still agree.
C6_Witness ==
    /\ op = "init" /\ err = "none" /\ Len(pairs) >= 4
    /\ pairs # InsertedTwin
    /\ ~PairwiseDistinct(args.priorities)
    /\ DrainElements(pairs, D, Len(pairs))
           = DrainElements(InsertedTwin, D, Len(InsertedTwin))

\* C7: a successful peek() returns the element the next top() would return, which
\* belongs to a pair of maximum priority, and changes nothing of the heap; is_empty()
\* and len() change nothing either.
C7_PeekAndQueriesChangeNothing ==
    [][/\ (op' = "peek" /\ err' = "none") =>
             /\ pairs # <<>>
             /\ ret' = TopOf(pairs, D).element
             /\ \E i \in DOMAIN pairs :
                   /\ Element(pairs[i]) = ret'
                   /\ \A j \in DOMAIN pairs : Priority(pairs[i]) >= Priority(pairs[j])
       /\ (op' \in {"peek", "is_empty", "len"}) =>
             /\ pairs' = pairs /\ D' = D /\ created' = created
             /\ LenOf(pairs') = LenOf(pairs)]_vars

\* peek() answered on a heap whose last pair holds another element than the root.
C7_Witness ==
    /\ op = "peek" /\ err = "none" /\ Len(pairs) >= 3
    /\ ret # Element(pairs[Len(pairs)])
    /\ Priority(pairs[1]) > Priority(pairs[Len(pairs)])

\* C8: top() and peek() on an empty heap raise, and leave the heap as the constructor
\* makes an empty one: no pair, the same D, and inserts and tops counted as before.
C8_EmptyHeapRaisesAndStaysEmpty ==
    [][(created /\ pairs = <<>> /\ op' \in {"top", "peek"}) =>
          /\ op' = "top" => err' = "RuntimeError_top"
          /\ op' = "peek" => err' = "RuntimeError_peek"
          /\ ret' = "None"
          /\ pairs' = InitOf(<<>>, <<>>, D).pairs
          /\ D' = D /\ created'
          /\ inserts' = inserts /\ tops' = tops]_vars

\* top() raised on a heap that inserts had filled and tops had emptied.
C8_Witness ==
    /\ created /\ op = "top" /\ err = "RuntimeError_top" /\ pairs = <<>>
    /\ inserts >= 2 /\ tops = loaded + inserts

\* C9: a constructor call with a branching factor below 2 raises and makes no heap;
\* a branching factor >= 2 never raises the branching-factor error, and with lists of
\* equal length the call returns a heap with that branching factor.
C9_BranchingFactorBelowTwoRejected ==
    op = "init" =>
        /\ args.branching_factor < 2 =>
              (err \in {"ValueError_branching", "ValueError_length"}
                  /\ ~created /\ pairs = <<>>)
        /\ args.branching_factor >= 2 =>
              /\ err # "ValueError_branching"
              /\ Len(args.elements) = Len(args.priorities) =>
                    (err = "none" /\ created /\ D = args.branching_factor)

\* The constructor rejected branching factor 1.
C9_Witness ==
    /\ op = "init" /\ args.branching_factor = 1
    /\ err = "ValueError_branching" /\ ~created

\* C10: a constructor call with lists of different lengths raises the length error and
\* makes no heap; lists of equal length (both empty included) never raise it.
C10_LengthMismatchRejected ==
    op = "init" =>
        /\ Len(args.elements) # Len(args.priorities) =>
              (err = "ValueError_length" /\ ~created /\ pairs = <<>>)
        /\ Len(args.elements) = Len(args.priorities) => err # "ValueError_length"

\* DWayHeap(priorities=[p]) with no elements was rejected.
C10_Witness ==
    /\ op = "init" /\ err = "ValueError_length" /\ ~created
    /\ Len(args.elements) = 0 /\ Len(args.priorities) = 1
    /\ args.branching_factor >= 2

\* The children of node i in an array of n pairs.
ChildrenOf(i, d, n) == (i * d + 1)..Min2(i * d + d, n - 1)

\* The child the tie-breaking rule names: of maximum priority, and the leftmost such.
LeftmostMaxChild(ps, d, i) ==
    CHOOSE c \in ChildrenOf(i, d, Len(ps)) :
        \A k \in ChildrenOf(i, d, Len(ps)) :
            /\ Priority(At(ps, c)) >= Priority(At(ps, k))
            /\ (Priority(At(ps, k)) = Priority(At(ps, c)) => c <= k)

\* Push-down as the rule describes it: swap with the leftmost maximum child while that
\* child's priority strictly exceeds the priority of the pair pushed down.
RECURSIVE PushDownByRule(_, _, _)
PushDownByRule(ps, d, i) ==
    IF ChildrenOf(i, d, Len(ps)) = {} THEN ps
    ELSE LET m == LeftmostMaxChild(ps, d, i)
         IN IF Priority(At(ps, m)) > Priority(At(ps, i))
            THEN PushDownByRule(Put(Put(ps, i, At(ps, m)), m, At(ps, i)), d, m)
            ELSE ps

\* C11: on every array the constructor is given and from every node of it,
\* _highest_priority_child_index names a child of maximum priority, the leftmost of
\* those, and _push_down swaps down only while that child strictly exceeds the pair
\* pushed down.
C11_PushDownTakesLeftmostMaxChild ==
    (op = "init" /\ err = "none") =>
        LET ps == Zip(args.priorities, args.elements)
        IN \A i \in 0..(Len(ps) - 1) :
              /\ IF ChildrenOf(i, D, Len(ps)) = {}
                 THEN HighestPriorityChildIndex(ps, D, i) = -1
                 ELSE HighestPriorityChildIndex(ps, D, i) = LeftmostMaxChild(ps, D, i)
              /\ PushDown(ps, D, i) = PushDownByRule(ps, D, i)
              /\ (ChildrenOf(i, D, Len(ps)) # {}
                     /\ Priority(At(ps, LeftmostMaxChild(ps, D, i))) <= Priority(At(ps, i)))
                    => PushDown(ps, D, i) = ps

\* The constructor pushed the root below the left one of two equal children, and
\* further down from there.
C11_Witness ==
    /\ op = "init" /\ err = "none" /\ D = 2 /\ Len(pairs) = 4
    /\ LET ps == Zip(args.priorities, args.elements)
       IN /\ Priority(ps[2]) = Priority(ps[3])
          /\ Element(ps[2]) # Element(ps[3])
          /\ Priority(ps[2]) > Priority(ps[4])
          /\ Priority(ps[4]) > Priority(ps[1])
          /\ PushDown(ps, D, 0) = <<ps[2], ps[4], ps[3], ps[1]>>

\* ================================================================ huffman.py
\* A Python str is modelled as the sequence of its characters, a dict as a function
\* on its keys (or, where its order matters, as the sequence of its items).

\* ---------------------------------------------------------------- bounds of the texts
\* Longest text over Alphabet that is tried with every order of its characters.
MaxTextLen == 4
\* Largest number of occurrences of one character in the texts made of runs.
MaxCount == 3

Alphabet == {"a", "b", "c"}
\* The characters of the texts made of one run per character, in order of appearance.
RunSymbols == <<"a", "b", "c", "d">>
\* BRANCHING_FACTORS_TO_TEST
BranchingFactorsToTest == {2, 3, 4, 5, 6}

\* c repeated n times.
Rep(c, n) == [i \in 1..n |-> c]

\* HuffmanTest.Text
ExampleText ==
    Rep("f", 3) \o Rep("e", 5) \o Rep("d", 6) \o Rep("c", 7) \o Rep("b", 22) \o Rep("a", 57)

\* The text with counts[i] times the i-th character of symbols, run after run.
RECURSIVE RunText(_, _)
RunText(symbols, counts) ==
    IF symbols = <<>> THEN <<>>
    ELSE Rep(Head(symbols), Head(counts)) \o RunText(Tail(symbols), Tail(counts))

\* ---------------------------------------------------------------- HuffmanNode
\* None, for an absent child.
NoNode == [none |-> TRUE]

HuffmanNode(symbols, priority, left, right) ==
    [symbols |-> symbols, priority |-> priority, left |-> left, right |-> right]

\* A right path that is labelled like a left path.
EncodeRightPath_Zero(inner_path) == <<"0">> \o inner_path

\* A left edge written after the inner path instead of before it.
EncodeLeftPath_Suffix(inner_path) == inner_path \o <<"0">>

EncodeLeftPath(inner_path) == <<"0">> \o inner_path

EncodeRightPath(inner_path) == <<"1">> \o inner_path

\* A dict after the items of update were assigned into it, one by one.
Assigned(table, update) ==
    [k \in (DOMAIN table) \cup (DOMAIN update) |->
        IF k \in DOMAIN update THEN update[k] ELSE table[k]]

\* tree_encoding without the assignment of "" at a node of one symbol.
RECURSIVE TreeEncoding_NoLeaf(_)
TreeEncoding_NoLeaf(node) ==
    LET left_encoding_table ==
            IF node.left = NoNode THEN <<>> ELSE TreeEncoding_NoLeaf(node.left)
        right_encoding_table ==
            IF node.right = NoNode THEN <<>> ELSE TreeEncoding_NoLeaf(node.right)
        from_left == [k \in DOMAIN left_encoding_table |->
                         EncodeLeftPath(left_encoding_table[k])]
        from_right == [k \in DOMAIN right_encoding_table |->
                          EncodeRightPath(right_encoding_table[k])]
    IN Assigned(from_left, from_right)

\* tree_encoding that forgets the table of the right subtree.
RECURSIVE TreeEncoding_LeftOnly(_)
TreeEncoding_LeftOnly(node) ==
    LET left_encoding_table ==
            IF node.left = NoNode THEN <<>> ELSE TreeEncoding_LeftOnly(node.left)
        from_left == [k \in DOMAIN left_encoding_table |->
                         EncodeLeftPath(left_encoding_table[k])]
    IN IF Len(node.symbols) = 1
       THEN Assigned(from_left, [k \in {node.symbols[1]} |-> <<>>])
       ELSE from_left

RECURSIVE TreeEncoding(_)
TreeEncoding(node) ==
    LET left_encoding_table ==
            IF node.left = NoNode THEN <<>> ELSE TreeEncoding(node.left)
        right_encoding_table ==
            IF node.right = NoNode THEN <<>> ELSE TreeEncoding(node.right)
        from_left == [k \in DOMAIN left_encoding_table |->
                         EncodeLeftPath(left_encoding_table[k])]
        from_right == [k \in DOMAIN right_encoding_table |->
                          EncodeRightPath(right_encoding_table[k])]
        encoding_table == Assigned(from_left, from_right)
    IN IF Len(node.symbols) = 1
       THEN Assigned(encoding_table, [k \in {node.symbols[1]} |-> <<>>])
       ELSE encoding_table

\* _validate: an absent child counts as no symbols and priority 0. A node is truthy
\* (the class defines neither __bool__ nor __len__), so `if self._left` asks whether
\* the child is present.
Validate(node) ==
    LET left_symbols == IF node.left # NoNode THEN node.left.symbols ELSE <<>>
        right_symbols == IF node.right # NoNode THEN node.right.symbols ELSE <<>>
        left_priority == IF node.left # NoNode THEN node.left.priority ELSE 0
        right_priority == IF node.right # NoNode THEN node.right.priority ELSE 0
    IN IF node.symbols # left_symbols \o right_symbols THEN FALSE
       ELSE IF node.priority # left_priority + right_priority THEN FALSE
       ELSE TRUE

\* ---------------------------------------------------------------- _create_frequency_table
\* collections.Counter(text): one item per distinct character, in order of first
\* appearance, with the number of its occurrences.
CreateFrequencyTable(text) ==
    LET firsts == {i \in DOMAIN text : \A j \in 1..(i - 1) : text[j] # text[i]}
        nth(k) == CHOOSE i \in firsts : Cardinality({j \in firsts : j < i}) = k - 1
    IN [k \in 1..Cardinality(firsts) |->
           <<text[nth(k)], Cardinality({i \in DOMAIN text : text[i] = text[nth(k)]})>>]

\* ft[c]
CountOf(table, c) == (CHOOSE item \in {table[i] : i \in DOMAIN table} : item[1] = c)[2]

\* ---------------------------------------------------------------- _frequency_table_to_heap
\* The nodes and priorities of lines 85-88, then the constructor call of line 89.
\* Leaves that carry the count itself, not its inverse.
LeafElements_Positive(table) ==
    [i \in DOMAIN table |-> HuffmanNode(<<table[i][1]>>, CountOf(table, table[i][1]), NoNode, NoNode)]

LeafElements(table) ==
    [i \in DOMAIN table |-> HuffmanNode(<<table[i][1]>>, -CountOf(table, table[i][1]), NoNode, NoNode)]

LeafPriorities(table) == [i \in DOMAIN table |-> -table[i][2]]

\* Priorities that are the frequencies themselves, not their inverse.
FrequencyTableToHeap_NoNegation(table, branching_factor) ==
    IF table = <<>>
    THEN [err |-> "ValueError_unpack", nodes |-> 0, created |-> FALSE, pairs |-> <<>>, D |-> 0]
    ELSE LET heap == InitOf(LeafElements(table), [i \in DOMAIN table |-> table[i][2]],
                            branching_factor)
         IN [err |-> heap.err, nodes |-> Len(table), created |-> heap.created,
             pairs |-> heap.pairs, D |-> heap.D]

\* An empty table that is unpacked into two empty lists.
FrequencyTableToHeap_NoUnpackError(table, branching_factor) ==
    LET heap == InitOf(LeafElements(table), LeafPriorities(table), branching_factor)
    IN [err |-> heap.err, nodes |-> Len(table), created |-> heap.created,
        pairs |-> heap.pairs, D |-> heap.D]

\* characters, priorities = list(zip(*ft.items())) raises ValueError on an empty table:
\* there is nothing to unpack.
FrequencyTableToHeap(table, branching_factor) ==
    IF table = <<>>
    THEN [err |-> "ValueError_unpack", nodes |-> 0, created |-> FALSE, pairs |-> <<>>, D |-> 0]
    ELSE LET heap == InitOf(LeafElements(table), LeafPriorities(table), branching_factor)
         IN [err |-> heap.err, nodes |-> Len(table), created |-> heap.created,
             pairs |-> heap.pairs, D |-> heap.D]

\* ---------------------------------------------------------------- _heap_to_tree
\* A loop body that uses the first node extracted for both children.
MergeOf_SameChild(ps, d) ==
    LET first == TopOf(ps, d)
        second == TopOf(first.pairs, d)
        right == first.element
        left == first.element
        symbols == left.symbols \o right.symbols
        priority == left.priority + right.priority
    IN [pairs |-> InsertOf(second.pairs, d, HuffmanNode(symbols, priority, left, right), priority),
        right |-> right, left |-> left]

\* A loop body that lists the right child's symbols first.
MergeOf_RightFirst(ps, d) ==
    LET first == TopOf(ps, d)
        second == TopOf(first.pairs, d)
        right == first.element
        left == second.element
        symbols == right.symbols \o left.symbols
        priority == left.priority + right.priority
    IN [pairs |-> InsertOf(second.pairs, d, HuffmanNode(symbols, priority, left, right), priority),
        right |-> right, left |-> left]

\* A loop body that inserts the merged node under the left child's priority.
MergeOf_KeyedByLeft(ps, d) ==
    LET first == TopOf(ps, d)
        second == TopOf(first.pairs, d)
        right == first.element
        left == second.element
        symbols == left.symbols \o right.symbols
        priority == left.priority + right.priority
    IN [pairs |-> InsertOf(second.pairs, d, HuffmanNode(symbols, priority, left, right),
                           left.priority),
        right |-> right, left |-> left]

\* A loop body that makes the first node extracted the left child.
MergeOf_Swapped(ps, d) ==
    LET first == TopOf(ps, d)
        second == TopOf(first.pairs, d)
        left == first.element
        right == second.element
        symbols == left.symbols \o right.symbols
        priority == left.priority + right.priority
    IN [pairs |-> InsertOf(second.pairs, d, HuffmanNode(symbols, priority, left, right), priority),
        right |-> right, left |-> left]

\* The body of the while loop, lines 104-111.
MergeOf(ps, d) ==
    LET first == TopOf(ps, d)
        second == TopOf(first.pairs, d)
        right == first.element
        left == second.element
        symbols == left.symbols \o right.symbols
        priority == left.priority + right.priority
    IN [pairs |-> InsertOf(second.pairs, d, HuffmanNode(symbols, priority, left, right), priority),
        right |-> right, left |-> left]

\* while len(heap) > 1: ...; return heap.top()
RECURSIVE HeapToTree(_, _)
HeapToTree(ps, d) ==
    IF LenOf(ps) > 1 THEN HeapToTree(MergeOf(ps, d).pairs, d) ELSE TopOf(ps, d).element

\* ---------------------------------------------------------------- create_encoding, step by step
\* The calls tried: texts over Alphabet in every order, texts of one run per character
\* of RunSymbols, and the text of the test, each with a branching factor.
ShortTexts == SeqsUpTo(Alphabet, MaxTextLen)

RunTexts == {RunText(RunSymbols, counts) : counts \in [1..Len(RunSymbols) -> 1..MaxCount]}

\* create_encoding(text, branching_factor) is entered.
HInit ==
    /\ pc = "call"
    /\ op = "create_encoding"
    /\ \/ \E t \in ShortTexts \cup RunTexts, bf \in 2..MaxD :
             args = [text |-> t, branching_factor |-> bf]
       \/ \E t \in SeqsUpTo(Alphabet, MaxErrLen), bf \in BadBFs :
             args = [text |-> t, branching_factor |-> bf]
       \/ \E bf \in BranchingFactorsToTest :
             args = [text |-> ExampleText, branching_factor |-> bf]
       \/ args = [text |-> ExampleText]
    /\ created = FALSE
    /\ D = 0
    /\ pairs = <<>>
    /\ ret = "None"
    /\ err = "none"
    /\ loaded = 0
    /\ inserts = 0
    /\ tops = 0
    /\ ft = <<>>
    /\ nodes = 0
    /\ last = NoNode
    /\ tree = NoNode
    /\ lists = <<>>
    /\ heaps = <<>>

\* The call binds its arguments (branching_factor has no default: a call without it
\* raises TypeError) and _create_frequency_table(text) is evaluated.
CreateFrequencyTableStep ==
    /\ pc = "call"
    /\ IF "branching_factor" \in DOMAIN args
       THEN /\ ft' = CreateFrequencyTable(args.text)
            /\ pc' = "counted"
            /\ err' = "none"
       ELSE /\ ft' = ft
            /\ pc' = "failed"
            /\ err' = "TypeError"
    /\ UNCHANGED <<created, D, pairs, op, args, ret, loaded, inserts, tops, nodes, last, tree>>
    /\ UNCHANGED avars

\* _frequency_table_to_heap(ft, branching_factor)
FrequencyTableToHeapStep ==
    /\ pc = "counted"
    /\ LET r == FrequencyTableToHeap(ft, args.branching_factor)
       IN /\ err' = r.err
          /\ nodes' = r.nodes
          /\ created' = r.created
          /\ pairs' = r.pairs
          /\ D' = r.D
          /\ loaded' = Len(r.pairs)
          /\ pc' = IF r.err = "none" THEN "heap" ELSE "failed"
    /\ UNCHANGED <<op, args, ret, inserts, tops, ft, last, tree>>
    /\ UNCHANGED avars

\* One iteration of the while loop of _heap_to_tree.
MergeStep ==
    /\ pc = "heap"
    /\ LenOf(pairs) > 1
    /\ LET r == MergeOf(pairs, D)
       IN /\ pairs' = r.pairs
          /\ last' = [right |-> r.right, left |-> r.left]
    /\ nodes' = nodes + 1
    /\ tops' = tops + 2
    /\ inserts' = inserts + 1
    /\ UNCHANGED <<created, D, op, args, ret, err, loaded, pc, ft, tree>>
    /\ UNCHANGED avars

\* The loop has ended: return heap.top()
ReturnRootStep ==
    /\ pc = "heap"
    /\ ~(LenOf(pairs) > 1)
    /\ LET r == TopOf(pairs, D)
       IN /\ err' = r.err
          /\ pairs' = r.pairs
          /\ tree' = IF r.err = "none" THEN r.element ELSE tree
          /\ tops' = IF r.err = "none" THEN tops + 1 ELSE tops
          /\ pc' = IF r.err = "none" THEN "tree" ELSE "failed"
    /\ UNCHANGED <<created, D, op, args, ret, loaded, inserts, ft, nodes, last>>
    /\ UNCHANGED avars

\* .tree_encoding() on the root, and create_encoding returns the table.
TreeEncodingStep ==
    /\ pc = "tree"
    /\ ret' = TreeEncoding(tree)
    /\ pc' = "done"
    /\ UNCHANGED <<created, D, pairs, op, args, err, loaded, inserts, tops, ft, nodes, last, tree>>
    /\ UNCHANGED avars

HNext ==
    \/ CreateFrequencyTableStep
    \/ FrequencyTableToHeapStep
    \/ MergeStep
    \/ ReturnRootStep
    \/ TreeEncodingStep

SpecHuffman == HInit /\ [][HNext]_vars

\* ---------------------------------------------------------------- what the Huffman claims speak of
SetOfChars(text) == {text[i] : i \in DOMAIN text}

RECURSIVE SumSeq(_)
SumSeq(s) == IF s = <<>> THEN 0 ELSE Head(s) + SumSeq(Tail(s))

\* The weight of a node: the sum of the counts of the symbols it covers.
WeightOf(node) == SumSeq([i \in DOMAIN node.symbols |-> CountOf(ft, node.symbols[i])])

\* sum(count(s) * len(code(s))) for a table of code lengths.
WeightedLength(table, lengths) ==
    SumSeq([i \in DOMAIN table |-> table[i][2] * lengths[table[i][1]]])

CodeLengths(codes) == [k \in DOMAIN codes |-> Len(codes[k])]

IsPrefix(a, b) == Len(a) <= Len(b) /\ SubSeq(b, 1, Len(a)) = a

PrefixFree(codes) ==
    \A x \in DOMAIN codes : \A y \in DOMAIN codes : x # y => ~IsPrefix(codes[x], codes[y])

\* Kraft's inequality, sum of 2^-l <= 1, scaled by 2^max: a prefix-free binary code
\* with the code lengths l exists exactly when it holds.
Kraft(table, lengths, max) ==
    SumSeq([i \in DOMAIN table |-> 2 ^ (max - lengths[table[i][1]])]) <= 2 ^ max

\* The call of the state completed normally / is over.
Returned == pc = "done"
Over == pc \in {"done", "failed"}
GivenBF == "branching_factor" \in DOMAIN args

\* {a:'0', b:'10', c:'1100', d:'1101', e:'1110', f:'1111'}
ExampleTable ==
    [k \in {"a", "b", "c", "d", "e", "f"} |->
        CASE k = "a" -> <<"0">>
          [] k = "b" -> <<"1", "0">>
          [] k = "c" -> <<"1", "1", "0", "0">>
          [] k = "d" -> <<"1", "1", "0", "1">>
          [] k = "e" -> <<"1", "1", "1", "0">>
          [] k = "f" -> <<"1", "1", "1", "1">>]

\* ---------------------------------------------------------------- claims on huffman.py

\* C12: for the text of the test, whose frequency table is f:3, e:5, d:6, c:7, b:22,
\* a:57 in that order, and branching factor 2, create_encoding returns exactly
\* {a:'0', b:'10', c:'1100', d:'1101', e:'1110', f:'1111'}.
C12_ExampleTableExact ==
    (Over /\ GivenBF /\ args.text = ExampleText /\ args.branching_factor = 2) =>
        /\ Returned
        /\ ft = <<<<"f", 3>>, <<"e", 5>>, <<"d", 6>>, <<"c", 7>>, <<"b", 22>>, <<"a", 57>>>>
        /\ ret = ExampleTable

\* The call on the text of the test with branching factor 2 has returned.
C12_Witness ==
    /\ Returned /\ GivenBF /\ args.text = ExampleText /\ args.branching_factor = 2
    /\ inserts = 5 /\ tops = 11

\* C13: every code table create_encoding returns is prefix-free: no code is a prefix
\* of the code of another symbol (so the codes are pairwise distinct).
C13_PrefixFree == Returned => PrefixFree(ret)

\* A returned table of four codes of three different lengths.
C13_Witness ==
    /\ Returned /\ Cardinality(DOMAIN ret) = 4
    /\ Cardinality({Len(ret[k]) : k \in DOMAIN ret}) = 3

\* C14: the returned table's total weighted code length is minimal among the
\* prefix-free binary codes for the frequency table: no assignment of code lengths
\* (up to one more than the number of symbols allows) that satisfies Kraft's inequality
\* has a smaller total.
C14_MinimalWeightedLength ==
    Returned =>
        /\ DOMAIN ret = {ft[i][1] : i \in DOMAIN ft}
        /\ \A lengths \in [DOMAIN ret -> 0..Len(ft)] :
              Kraft(ft, lengths, Len(ft)) =>
                  WeightedLength(ft, CodeLengths(ret)) <= WeightedLength(ft, lengths)

\* A returned table for four symbols that beats the code of four 2-bit codes.
C14_Witness ==
    /\ Returned /\ Len(ft) = 4
    /\ WeightedLength(ft, CodeLengths(ret)) < WeightedLength(ft, [k \in DOMAIN ret |-> 2])

\* The nodes resident in the queue.
QueueNodes(ps) == {Element(ps[i]) : i \in DOMAIN ps}

\* C15: in every iteration of the merge loop the two nodes extracted are in the queue,
\* and each weighs no more than any node that stays in the queue after the two
\* extractions (weights being sums of the counts of the covered symbols).
C15_MergesTwoLeastWeights ==
    [][(pc = "heap" /\ inserts' = inserts + 1) =>
          LET right == last'.right
              left == last'.left
              remaining == QueueNodes(pairs) \ {right, left}
          IN /\ right \in QueueNodes(pairs)
             /\ left \in QueueNodes(pairs)
             /\ right # left
             /\ Cardinality(remaining) = LenOf(pairs) - 2
             /\ \A n \in remaining :
                   /\ WeightOf(right) <= WeightOf(n)
                   /\ WeightOf(left) <= WeightOf(n)]_vars

\* A later iteration has extracted a merged node and left nodes in the queue.
C15_Witness ==
    /\ pc = "heap" /\ inserts >= 2 /\ LenOf(pairs) >= 3
    /\ (last.left.left # NoNode \/ last.right.left # NoNode)

\* C16: for a text of one distinct character x, n > 0 times, and a branching factor
\* >= 2, the call returns, the tree is a single leaf without children, and the table
\* is exactly {x: ''}.
C16_SingleSymbolGetsEmptyCode ==
    (/\ Over /\ GivenBF
     /\ Cardinality(SetOfChars(args.text)) = 1
     /\ args.branching_factor >= 2) =>
        /\ Returned
        /\ tree = HuffmanNode(<<args.text[1]>>, -Len(args.text), NoNode, NoNode)
        /\ tree.left = NoNode /\ tree.right = NoNode
        /\ nodes = 1 /\ inserts = 0
        /\ ret = [k \in {args.text[1]} |-> <<>>]

\* The call on a text of one character, several times, has returned.
C16_Witness ==
    /\ Returned /\ Len(args.text) >= 3 /\ Cardinality(SetOfChars(args.text)) = 1

\* C17: on the empty text the call fails with an error, and up to and including the
\* failure no HuffmanNode and no DWayHeap has been constructed.
C17_EmptyInputFailsFirst ==
    (GivenBF /\ args.text = <<>>) =>
        /\ nodes = 0 /\ ~created /\ pairs = <<>>
        /\ pc \in {"call", "counted", "failed"}
        /\ pc = "failed" => err # "none"
        /\ pc = "counted" => ft = <<>>

\* The call on the empty text has failed where the table is unpacked.
C17_Witness ==
    /\ pc = "failed" /\ GivenBF /\ args.text = <<>>
    /\ args.branching_factor >= 2 /\ err = "ValueError_unpack"

\* C18: for the text of the test, every branching factor in {2,3,4,5,6} gives the
\* code lengths a:1, b:2, c:4, d:4, e:4, f:4.
C18_ExampleLengthsForEveryD ==
    (/\ Over /\ GivenBF
     /\ args.text = ExampleText
     /\ args.branching_factor \in BranchingFactorsToTest) =>
        /\ Returned
        /\ D = args.branching_factor
        /\ CodeLengths(ret) =
              [k \in {"a", "b", "c", "d", "e", "f"} |->
                  CASE k = "a" -> 1 [] k = "b" -> 2 [] OTHER -> 4]

\* The call on the text of the test with the largest branching factor has returned.
C18_Witness ==
    /\ Returned /\ GivenBF /\ args.text = ExampleText /\ args.branching_factor = 6
    /\ D = 6

\* C19 as stated: create_encoding(text), with no branching factor, returns, uses
\* branching factor 2 and gives the table create_encoding(text, 2) gives.
C19_DefaultBranchingFactorIsTwo ==
    (Over /\ ~GivenBF) =>
        /\ Returned
        /\ D = 2
        /\ ret = TreeEncoding(HeapToTree(
                     FrequencyTableToHeap(CreateFrequencyTable(args.text), 2).pairs, 2))

\* C20: for a non-empty text and a branching factor >= 2 the call returns a table
\* whose keys are exactly the distinct characters of the text.
C20_KeysAreTheCharacters ==
    (Over /\ GivenBF /\ args.text # <<>> /\ args.branching_factor >= 2) =>
        /\ Returned
        /\ DOMAIN ret = SetOfChars(args.text)

\* A returned table for a text whose three characters come in mixed order.
C20_Witness ==
    /\ Returned /\ Cardinality(DOMAIN ret) = 3
    /\ Len(args.text) = 4 /\ args.text[1] = args.text[4] /\ args.text[2] # args.text[3]

\* ---------------------------------------------------------------- what the claims on the tree speak of
\* The nodes of a tree, each with the path of edges that leads to it from the root:
\* "0" for an edge to a left child, "1" for an edge to a right child.
RECURSIVE Located(_, _)
Located(node, path) ==
    {[path |-> path, node |-> node]}
        \cup (IF node.left = NoNode THEN {} ELSE Located(node.left, Append(path, "0")))
        \cup (IF node.right = NoNode THEN {} ELSE Located(node.right, Append(path, "1")))

NodesOf(root) == {l.node : l \in Located(root, <<>>)}

IsLeaf(node) == node.left = NoNode /\ node.right = NoNode
IsInternal(node) == node.left # NoNode /\ node.right # NoNode

\* The weight a node carries: its priority is the negated weight.
Weight(node) == -node.priority

\* _heap_to_tree has returned its root.
Built == pc \in {"tree", "done"}

\* C21: in the tree returned by _heap_to_tree every node that is not a leaf, at any
\* depth, has both children, its weight is the sum of its children's weights and its
\* symbols are the left child's symbols followed by the right child's.
C21_InternalNodesAddUp ==
    Built =>
        \A n \in NodesOf(tree) :
            ~IsLeaf(n) =>
                /\ IsInternal(n)
                /\ Weight(n) = Weight(n.left) + Weight(n.right)
                /\ n.symbols = n.left.symbols \o n.right.symbols

\* A tree with an internal node below the root whose children differ.
C21_Witness ==
    /\ Built
    /\ \E n \in NodesOf(tree) \ {tree} :
          IsInternal(n) /\ IsInternal(n.left) /\ Len(n.right.symbols) = 1

\* C22: every leaf of the tree has one symbol and the weight of its count in the
\* frequency table; every node's weight is the sum of the counts of the symbols it
\* covers; the root's weight is the length of the text. The leaves the heap is built
\* from already carry their counts.
C22_WeightsAreCounts ==
    /\ (pc = "heap" /\ inserts = 0) =>
          \A i \in DOMAIN ft : \E n \in QueueNodes(pairs) :
              n.symbols = <<ft[i][1]>> /\ Weight(n) = ft[i][2] /\ IsLeaf(n)
    /\ Built =>
          /\ \A n \in NodesOf(tree) :
                /\ Weight(n) = WeightOf(n)
                /\ IsLeaf(n) =>
                      /\ Len(n.symbols) = 1
                      /\ \E i \in DOMAIN ft : ft[i] = <<n.symbols[1], Weight(n)>>
          /\ Weight(tree) = Len(args.text)

\* A tree over symbols of three different counts.
C22_Witness ==
    /\ Built
    /\ Cardinality({Weight(n) : n \in {m \in NodesOf(tree) : IsLeaf(m)}}) >= 3
    /\ Weight(tree) = Len(args.text)

HeapReturned == pc = "heap" /\ inserts = 0 /\ tops = 0

\* The leaf of an item (symbol, count) of the frequency table.
LeafOf(item) == HuffmanNode(<<item[1]>>, -item[2], NoNode, NoNode)

Added(before, after) == {after[j] : j \in DOMAIN after} \ {before[j] : j \in DOMAIN before}

\* C25: in each merge step the node extracted first becomes the right child and the
\* node extracted second the left child of the new node; so in the tree every internal
\* node's right child weighs no more than its left child, and in the table the codes
\* of the symbols below a left child continue the node's path with '0', those below a
\* right child with '1'.
C25_FirstExtractedGoesRight ==
    [][/\ (pc = "heap" /\ inserts' = inserts + 1) =>
              LET first == TopOf(pairs, D)
                  second == TopOf(first.pairs, D)
              IN \E p \in Added(pairs, pairs') :
                    /\ Added(pairs, pairs') = {p}
                    /\ Element(p).right = first.element
                    /\ Element(p).left = second.element
                    /\ Weight(Element(p).right) <= Weight(Element(p).left)
       /\ Built' =>
              \A n \in NodesOf(tree') : IsInternal(n) => Weight(n.right) <= Weight(n.left)
       /\ Returned' =>
              \A l \in Located(tree', <<>>) :
                  IsInternal(l.node) =>
                      /\ \A i \in DOMAIN l.node.left.symbols :
                            SubSeq(ret'[l.node.left.symbols[i]], 1, Len(l.path) + 1)
                                = Append(l.path, "0")
                      /\ \A i \in DOMAIN l.node.right.symbols :
                            SubSeq(ret'[l.node.right.symbols[i]], 1, Len(l.path) + 1)
                                = Append(l.path, "1")]_vars

\* A returned table whose tree has, below the root, an internal node whose right
\* child is lighter than its left child.
C25_Witness ==
    /\ Returned
    /\ \E n \in NodesOf(tree) \ {tree} : IsInternal(n) /\ Weight(n.right) < Weight(n.left)
    /\ \E k \in DOMAIN ret : Len(ret[k]) >= 3

\* The priority a node is stored under in the queue.
KeyOf(ps, node) == Priority(CHOOSE p \in {ps[j] : j \in DOMAIN ps} : Element(p) = node)

LeavesOf(root) == {l \in Located(root, <<>>) : IsLeaf(l.node)}
InternalsOf(root) == {l \in Located(root, <<>>) : ~IsLeaf(l.node)}

\* C27: on a heap of n >= 1 leaves the loop of _heap_to_tree shrinks the queue by
\* exactly one node per iteration and so ends after exactly n - 1 iterations (the queue
\* holds n minus the number of iterations so far, never fewer than one node); it then
\* returns the one node left as the root and leaves the queue empty; the tree has n
\* leaves and n - 1 internal nodes.
C27_TerminatesAfterNMinusOneMerges ==
    [][/\ pc = "heap" =>
              /\ LenOf(pairs) >= 1
              /\ LenOf(pairs) = Len(ft) - inserts
              /\ pc' \in {"heap", "tree"}
       /\ (pc = "heap" /\ pc' = "heap") =>
              /\ LenOf(pairs) > 1
              /\ inserts' = inserts + 1
              /\ LenOf(pairs') = LenOf(pairs) - 1
       /\ (pc = "heap" /\ pc' = "tree") =>
              /\ inserts = Len(ft) - 1
              /\ pairs = <<<<tree'.priority, tree'>>>>
              /\ pairs' = <<>>
       /\ Built' =>
              /\ inserts' = Len(ft') - 1
              /\ pairs' = <<>>
              /\ Cardinality(LeavesOf(tree')) = Len(ft')
              /\ Cardinality(InternalsOf(tree')) = Len(ft') - 1]_vars

\* The loop has ended after three iterations on four leaves.
C27_Witness ==
    /\ Built /\ Len(ft) = 4 /\ inserts = 3 /\ pairs = <<>>
    /\ Cardinality(InternalsOf(tree)) = 3

\* C28: the table gives each symbol the path from the root to its leaf, one character
\* per edge, '0' for a left edge and '1' for a right edge, the edge at the root first,
\* so the length of a code is the depth of the leaf; at every internal node the tables
\* of the two subtrees have no key in common.
C28_CodesArePaths ==
    Returned =>
        /\ \A l \in LeavesOf(tree) :
              /\ l.node.symbols[1] \in DOMAIN ret
              /\ ret[l.node.symbols[1]] = l.path
              /\ Len(ret[l.node.symbols[1]]) = Len(l.path)
        /\ \A l \in InternalsOf(tree) :
              (DOMAIN TreeEncoding(l.node.left)) \cap (DOMAIN TreeEncoding(l.node.right)) = {}

\* A returned table with a leaf reached by a left edge and then a right edge.
C28_Witness ==
    /\ Returned
    /\ \E l \in LeavesOf(tree) :
          /\ Len(l.path) >= 2 /\ l.path[1] = "0" /\ l.path[2] = "1"
          /\ ret[l.node.symbols[1]] = l.path

\* C29: the tree returned by _heap_to_tree is a strict binary tree: every node has both
\* children or none, no node stands at two places of the tree (every node but the root
\* is the child of exactly one node, on one side), and each distinct symbol of the text
\* is covered by exactly one leaf, which holds that symbol alone.
C29_StrictBinaryTree ==
    Built =>
        /\ \A n \in NodesOf(tree) : IsLeaf(n) \/ IsInternal(n)
        /\ \A l1 \in Located(tree, <<>>) : \A l2 \in Located(tree, <<>>) :
              l1.node = l2.node => l1.path = l2.path
        /\ \A n \in NodesOf(tree) \ {tree} :
              Cardinality({l \in InternalsOf(tree) : l.node.left = n \/ l.node.right = n}) = 1
        /\ \A n \in NodesOf(tree) : IsInternal(n) => n.left # n.right
        /\ \A l \in LeavesOf(tree) : Len(l.node.symbols) = 1
        /\ \A i \in DOMAIN ft :
              Cardinality({l \in LeavesOf(tree) : l.node.symbols = <<ft[i][1]>>}) = 1

\* A tree of four leaves whose root has two internal children.
C29_Witness ==
    /\ Built /\ Cardinality(LeavesOf(tree)) = 4
    /\ IsInternal(tree) /\ IsInternal(tree.left) /\ IsInternal(tree.right)

\* ---------------------------------------------------------------- the frame of insert
\* The indices from index up to the root, each followed by its parent.
RECURSIVE PathToRoot(_, _)
PathToRoot(index, d) ==
    IF index = 0 THEN <<0>> ELSE <<index>> \o PathToRoot((index - 1) \div d, d)

\* C30: insert(element, priority) on a heap of size n appends the pair at index n and
\* moves it toward the root only past parents of strictly lower priority: afterwards
\* the new pair is at an index of the path from n to the root, every ancestor it passed
\* has moved down one level along that path, every pair off the passed part of the
\* path keeps its index, and the pair stops below the first parent whose priority is
\* equal or higher.
C30_InsertMovesOnlyAlongThePath ==
    [][(op' = "insert" /\ inserts' = inserts + 1) =>
          LET n == Len(pairs)
              new == <<args'.priority, args'.element>>
              path == PathToRoot(n, D)
          IN /\ Len(pairs') = n + 1
             /\ \E m \in 1..Len(path) :
                   /\ At(pairs', path[m]) = new
                   /\ \A j \in 1..(m - 1) :
                         /\ At(pairs', path[j]) = At(pairs, path[j + 1])
                         /\ Priority(At(pairs, path[j + 1])) < Priority(new)
                   /\ m < Len(path) => Priority(At(pairs, path[m + 1])) >= Priority(new)
                   /\ \A i \in 0..(n - 1) :
                         i \notin {path[j] : j \in 2..m} => At(pairs', i) = At(pairs, i)]_vars

\* An inserted pair that rose one level and stopped below a parent of equal priority:
\* the last index holds a pair of lower priority, the ancestor that came down.
C30_Witness ==
    /\ op = "insert" /\ Len(pairs) >= 4
    /\ Priority(At(pairs, Len(pairs) - 1)) < args.priority
    /\ \E k \in 1..(Len(pairs) - 2) :
          /\ At(pairs, k) = <<args.priority, args.element>>
          /\ k = (Len(pairs) - 2) \div D
          /\ Priority(At(pairs, (k - 1) \div D)) = args.priority

\* ---------------------------------------------------------------- claims on _validate and the assertions
\* Every node's priority is >= every priority in the subtree below it.
SubtreeOrdered(ps, d) ==
    \A j \in 0..(Len(ps) - 1) :
        \A k \in 2..Len(PathToRoot(j, d)) :
            Priority(At(ps, PathToRoot(j, d)[k])) >= Priority(At(ps, j))

\* C31: for every backing list, in heap order or not, sizes 0 and 1 included, and
\* every D >= 2, _validate() returns True exactly when every node's priority is >= the
\* priority of each of its direct children, and that is the case exactly when every
\* node's priority is >= every priority in its subtree.
C31_ValidateIffHeapOrder ==
    op = "_validate" =>
        /\ ret \in BOOLEAN
        /\ ret <=> HeapOrdered(pairs, D)
        /\ HeapOrdered(pairs, D) <=> SubtreeOrdered(pairs, D)

\* _validate has returned False on a list whose only fault is at the last inner node:
\* the root is not below any pair.
C31_Witness ==
    /\ op = "_validate" /\ ret = FALSE /\ Len(pairs) = MaxLen
    /\ \A j \in 1..(Len(pairs) - 1) : Priority(At(pairs, 0)) >= Priority(At(pairs, j))

\* C32: in every _push_down and _bubble_up call made by the constructor, insert and
\* top, on heaps of any size from 0, the assertions hold: the index is within [0, n)
\* and the node at hand in the push-down loop has a child; in the heap a node at index
\* i has a child exactly when i < first_leaf_index().
C32_AssertionsHold ==
    [][/\ (op' = "init" /\ created') =>
              InitAsserts(args'.elements, args'.priorities, args'.branching_factor)
       /\ (op' = "insert" /\ inserts' = inserts + 1) =>
              InsertAsserts(pairs, D, args'.element, args'.priority)
       /\ (op' = "top" /\ err' = "none") => TopAsserts(pairs, D)
       /\ created' =>
              \A i \in 0..(Len(pairs') - 1) :
                  (HighestPriorityChildIndex(pairs', D', i) # -1)
                      <=> (i < FirstLeafIndex(pairs', D'))]_vars

\* A top on a heap of two pairs: _push_down(0) ran on the one pair left, which is a
\* leaf, and the loop was not entered.
C32_Witness ==
    /\ op = "top" /\ err = "none" /\ Len(pairs) = 1 /\ tops >= 1
    /\ FirstLeafIndex(pairs, D) = 0
    /\ HighestPriorityChildIndex(pairs, D, 0) = -1

\* C33: the internal nodes created by successive iterations of the merge loop have
\* non-decreasing weights: each merged node weighs at least as much as the one created
\* in the iteration before.
C33_MergedWeightsNonDecreasing ==
    [][(pc = "heap" /\ inserts >= 1 /\ inserts' = inserts + 1) =>
          \A p \in Added(pairs, pairs') :
              /\ Element(p).left = last'.left /\ Element(p).right = last'.right
              /\ Weight(Element(p)) >= Weight(last.left) + Weight(last.right)
              /\ \E q \in QueueNodes(pairs) \cup {last'.left, last'.right} :
                    /\ q.left = last.left /\ q.right = last.right
                    /\ Weight(Element(p)) >= Weight(q)]_vars

\* Three merges have been made and the latest node is heavier than one made before it,
\* which it has as a child.
C33_Witness ==
    /\ pc = "heap" /\ inserts >= 3
    /\ IsInternal(last.left) /\ IsInternal(last.right)
    /\ Weight(last.left) > Weight(last.right)

\* ---------------------------------------------------------------- claim on the independence of heaps
\* The heaps that exist.
Made(hs) == {h \in HeapNames : hs[h] # NoHeap}

\* C34: a constructor call puts the pairs in a list object of its own, new at that
\* call, and reads the lists it is given without changing them; so no insert or top on
\* one heap, and no constructor call, changes the caller's lists, the default lists of
\* the omitted arguments or the content of another heap.
C34_HeapsAreIndependent ==
    [][/\ \A i \in ListsBefore : lists'[i] = lists[i]
       /\ \A k \in Made(heaps) :
             /\ heaps'[k] = heaps[k]
             /\ (op' = "init" \/ args'.heap # k) =>
                   lists'[heaps[k].pairs] = lists[heaps[k].pairs]
       /\ \A k \in Made(heaps') :
             /\ heaps'[k].pairs \notin ListsBefore
             /\ \A j \in Made(heaps') \ {k} : heaps'[j].pairs # heaps'[k].pairs
       /\ \A k \in Made(heaps') \ Made(heaps) :
             /\ heaps'[k].pairs > Len(lists)
             /\ BagOfSeq(lists'[heaps'[k].pairs])
                    = BagOfSeq(Zip(lists[args'.priorities], lists[args'.elements]))]_vars

\* Two heaps were made from the omitted arguments (the caller's lists are not empty,
\* and nothing was put in either heap at its construction); a pair was then inserted
\* into the first, and the second is still empty.
C34_Witness ==
    /\ Made(heaps) = HeapNames /\ op = "insert" /\ args.heap = "first"
    /\ inserts = 1 /\ tops = 0
    /\ lists[CallerElements] # <<>>
    /\ Len(lists[heaps["first"].pairs]) = 1
    /\ lists[heaps["second"].pairs] = <<>>
    /\ lists[DefaultElements] = <<>> /\ lists[DefaultPriorities] = <<>>

====
